---- MODULE Spec2Model ----
(***************************************************************************)
(* A model of src/conversation.py: the word guessing game that delegates   *)
(* every judgement to a chat completion service.  The state is the module  *)
(* level PromptEngineer (game_state, config, conversation_history), the    *)
(* position of main_game_loop and of PromptEngineer.get_ai_response, and   *)
(* the completion request in flight.  Texts are TLA+ strings, handled with *)
(* Len, SubSeq and \o as Python handles str.                               *)
(***************************************************************************)
EXTENDS Integers, Sequences, FiniteSets, TLC

\* ---------------------------------------------------------------- bounds
\* How many empty guesses the player submits in one session at most.
MaxEmpty == 3
\* How many times main_game_loop is called in one process at most.
MaxSessions == 2
\* How many direct calls of get_ai_response a caller makes at most:
\* demonstrate_prompt_techniques makes three.
MaxCalls == 3

\* ------------------------------------------------------- Python str helpers
UpperLetters == "ABCDEFGHIJKLMNOPQRSTUVWXYZ"
LowerLetters == "abcdefghijklmnopqrstuvwxyz"

\* The i-th character of s, as a one character string.
CharAt(s, i) == SubSeq(s, i, i)

UpperSet == {CharAt(UpperLetters, i) : i \in 1..26}

\* str.lower() of one ASCII character.
LowerChar(c) ==
    IF c \in UpperSet
    THEN CharAt(LowerLetters, CHOOSE i \in 1..26 : CharAt(UpperLetters, i) = c)
    ELSE c

RECURSIVE ToLower(_)
\* str.lower(), character by character (the text is halved to keep the
\* evaluation shallow on the long prompts; t \in {s} has s evaluated once).
ToLower(s) ==
    CHOOSE lowered \in
        { IF Len(t) = 0 THEN ""
          ELSE IF Len(t) = 1 THEN LowerChar(t)
          ELSE ToLower(SubSeq(t, 1, Len(t) \div 2))
               \o ToLower(SubSeq(t, Len(t) \div 2 + 1, Len(t))) : t \in {s} } : TRUE

\* The characters str.strip() removes, among those a string of the model can
\* hold: space, \t, \n, \r, \f, the vertical tab (0x0B) and the separators
\* 0x1C, 0x1D, 0x1E, 0x1F, the last five written as the characters themselves.
Whitespace == {" ", "\t", "\n", "\r", "\f", "", "", "", "", ""}

RECURSIVE LStrip(_)
LStrip(s) ==
    IF s # "" /\ CharAt(s, 1) \in Whitespace
    THEN LStrip(SubSeq(s, 2, Len(s)))
    ELSE s

RECURSIVE RStrip(_)
RStrip(s) ==
    IF s # "" /\ CharAt(s, Len(s)) \in Whitespace
    THEN RStrip(SubSeq(s, 1, Len(s) - 1))
    ELSE s

\* str.strip()
Strip(s) == RStrip(LStrip(s))

\* Python's `sub in s` for strings.
Contains(s, sub) ==
    \E t \in {s} :
        \E i \in 1..(Len(t) - Len(sub) + 1) : SubSeq(t, i, i + Len(sub) - 1) = sub

\* str(n) for an integer, as an f-string or str.format renders it.
Str(n) == ToString(n)

\* Optional values: None is the empty tuple, a present value x is <<x>>.
None == <<>>
Some(x) == <<x>>

\* --------------------------------------------------------------- prompt text
GameMasterPrompt ==
    "You are an expert word guessing game master with 20+ years of experience in educational games. \n"
    \o "            Your role is to create engaging, educational, and fun word guessing experiences.\n"
    \o "            \n"
    \o "            PERSONALITY TRAITS:\n"
    \o "            - Enthusiastic and encouraging\n"
    \o "            - Patient with learners\n"
    \o "            - Creative in clue generation\n"
    \o "            - Educational focus\n"
    \o "            \n"
    \o "            EXPERTISE AREAS:\n"
    \o "            - Vocabulary building\n"
    \o "            - Critical thinking development\n"
    \o "            - Pattern recognition\n"
    \o "            - Language learning techniques"

HintProgressionJson ==
    "{\n"
    \o "  \"word\": \"PHOTOSYNTHESIS\",\n"
    \o "  \"hints\": [\n"
    \o "    \"I'm a biological process that plants use to make food.\",\n"
    \o "    \"I require sunlight, water, and carbon dioxide.\",\n"
    \o "    \"I produce glucose and oxygen as byproducts.\",\n"
    \o "    \"I happen in the chloroplasts of plant cells.\"\n"
    \o "  ]\n"
    \o "}"

CotPart0 ==
    "\n"
    \o "        Let's think step by step about this word guessing scenario:\n"
    \o "        \n"
    \o "        CONTEXT: "

CotPart1 ==
    "\n"
    \o "        \n"
    \o "        REASONING PROCESS:\n"
    \o "        1. First, I need to analyze what the player is trying to guess\n"
    \o "        2. Then, I should consider their current understanding level\n"
    \o "        3. Next, I'll determine the appropriate difficulty of my response\n"
    \o "        4. Finally, I'll craft a response that guides without giving away the answer\n"
    \o "        \n"
    \o "        STEP-BY-STEP ANALYSIS:\n"
    \o "        - Current attempt number: "

CotPart2 ==
    "\n"
    \o "        - Remaining attempts: "

CotPart3 ==
    "\n"
    \o "        - Hints given so far: "

CotPart4 ==
    "\n"
    \o "        - Player's last guess: "

CotPart5 ==
    "\n"
    \o "        \n"
    \o "        REASONING: Based on this analysis, I should...\n"
    \o "        "

HintPart0 ==
    "\n"
    \o "            HINT REQUEST ANALYSIS:\n"
    \o "            - Current attempt: "

HintPart1 ==
    "/"

HintPart2 ==
    "\n"
    \o "            - Previous hints given: "

HintPart3 ==
    "\n"
    \o "            - Player's last guess: \""

HintPart4 ==
    "\"\n"
    \o "            \n"
    \o "            HINT STRATEGY:\n"
    \o "            - Provide a hint that's more specific than the last\n"
    \o "            - Guide toward the answer without revealing it\n"
    \o "            - Consider the player's learning style\n"
    \o "            - Maintain engagement and challenge\n"
    \o "            "

\* ------------------------------------------------------------------ GameMode
GameModes == {"easy", "medium", "hard", "expert"}

\* ---------------------------------------------------------------- PromptType
PromptTypes == {"system", "few_shot", "chain_of_thought", "role_based", "template"}

\* -------------------------------------------------------------- PromptConfig
\* The float fields are kept in hundredths (temperature 0.7 is 70); stop is
\* the string "None" because no configuration of the program sets it.
PromptConfig(max_tokens, temperature, top_p, frequency_penalty) ==
    [max_tokens |-> max_tokens, temperature |-> temperature, top_p |-> top_p,
     frequency_penalty |-> frequency_penalty, presence_penalty |-> 0,
     stop |-> "None"]

\* PromptConfig(): the dataclass defaults.
DefaultConfig == PromptConfig(1000, 70, 90, 0)

\* ----------------------------------------------------------------- GameState
max_attempts == 4
max_hints == 3

\* ------------------------------------------------------------------ the state
VARIABLES
    pc,                    \* where main_game_loop / get_ai_response stands
    attempts,              \* game_state.attempts
    game_over,             \* game_state.game_over
    hints_given,           \* game_state.hints_given
    game_mode,             \* game_state.game_mode
    engine_config,         \* prompt_engineer.config
    config,                \* main_game_loop's local config
    conversation_history,  \* prompt_engineer.conversation_history
    user_guess,            \* main_game_loop's local user_guess
    caller,                \* who called get_ai_response: its return address
    user_input,            \* get_ai_response's argument user_input
    messages,              \* the payload of the request in flight or last sent
    req_config,            \* the sampling parameters sent with that request
    req_stream,            \* the stream flag sent with that request
    response,              \* the response as the service delivers it
    chunks,                \* the chunks of the response not yet iterated over
    ai_response,           \* get_ai_response's ai_response / its return value
    printed,               \* what has been printed of the reply being streamed
    requests,              \* completion requests issued so far, per caller
    svc_log,               \* the service's record of the completed exchanges
    reprompts,             \* how often "Please enter a guess!" was printed
    end_message,           \* which closing banner main_game_loop printed
    raised,                \* whether an exception left main_game_loop
    calls,                 \* direct calls of get_ai_response made so far
    sessions               \* calls of main_game_loop made so far in this process

vars == <<pc, attempts, game_over, hints_given, game_mode, engine_config, config,
          conversation_history, user_guess, caller, user_input, messages,
          req_config, req_stream, chunks, ai_response, printed, requests,
          svc_log, reprompts, end_message, raised, calls, response, sessions>>

game_vars == <<attempts, game_over, hints_given, game_mode, engine_config, config,
               user_guess, reprompts, end_message>>
request_vars == <<caller, user_input, messages, req_config, req_stream, requests>>
response_vars == <<response, chunks, ai_response, printed, svc_log>>

\* ------------------------------------------------------------------- inputs
\* What the player types at "Enter your choice (1-4): ".
DifficultyInputs == {" 2 ", "4\n", "5", ""}

\* What the player types at "Your guess: ".
GuessInputs == {"", " \t", "cat", " Hint "}

\* What the player types at "Would you like a hint? (y/n): ".
HintInputs == {"y", " YES", "n", "", "yes please"}

\* A chunk of a streamed response: chunk.choices[0].delta.content.
Chunk(content) == [content |-> content]

\* The responses the completion service may deliver, each as its stream of
\* chunks; a chunk without content carries None.  ClueReplies answer the
\* request for the initial clue or for a hint, the others a guess analysis; a
\* direct call, whose reply is not scanned, gets a clue or a losing reply.
ClueReplies ==
    { <<Chunk(Some("Hel")), Chunk(Some("lo, ")), Chunk(Some("world!"))>>,
      <<Chunk(None), Chunk(Some("You are r")), Chunk(Some("ight on track"))>> }

LosingReplies ==
    { <<Chunk(None), Chunk(Some("Not quite, ")), Chunk(Some("try again")), Chunk(None)>> }

WinningReplies ==
    { <<Chunk(Some("Correct! ")), Chunk(Some("Well done."))>>,
      <<Chunk(Some("CONGRATULATIONS"))>>,
      <<Chunk(Some("Yes, you g")), Chunk(None), Chunk(Some("ot it"))>>,
      <<Chunk(Some("A bRight idea"))>>,
      <<Chunk(Some("Exactly."))>> }

Replies == ClueReplies \cup LosingReplies \cup WinningReplies

RepliesTo(who) ==
    CASE who = "guess"  -> LosingReplies \cup WinningReplies
      [] who = "direct" -> ClueReplies \cup LosingReplies
      [] OTHER          -> ClueReplies

RECURSIVE FullText(_)
\* The complete text of a response: what message.content holds when the same
\* response is delivered whole.
FullText(r) ==
    IF r = <<>> THEN ""
    ELSE (IF Head(r).content = None THEN "" ELSE Head(r).content[1])
         \o FullText(Tail(r))

\* ------------------------------------------------------------ PromptEngineer
\* get_system_prompts()["game_master"]
system_prompt == GameMasterPrompt

\* get_few_shot_examples()[1]["examples"], each rendered by json.dumps(indent=2)
hint_progression_examples == <<HintProgressionJson>>

create_chain_of_thought_prompt(context) ==
    CotPart0 \o context \o CotPart1 \o Str(attempts) \o CotPart2
    \o Str(max_attempts - attempts) \o CotPart3 \o Str(hints_given)
    \o CotPart4 \o context \o CotPart5

\* create_template_prompts()["hint_request"].format(...)
hint_template(att, hints, last_guess) ==
    HintPart0 \o Str(att) \o HintPart1 \o Str(max_attempts) \o HintPart2
    \o Str(hints) \o HintPart3 \o last_guess \o HintPart4

Message(role, content) == [role |-> role, content |-> content]

\* build_conversation_context with the chain-of-thought turn added after the
\* history instead of before it.
build_conversation_context_cot_last(input, prompt_type, hints) ==
    <<Message("system", system_prompt)>>
    \o (IF Contains(ToLower(input), "hint") \/ hints > 0
        THEN [i \in 1..Len(hint_progression_examples) |->
                Message("system", "EXAMPLE HINT PROGRESSION: "
                                  \o hint_progression_examples[i])]
        ELSE <<>>)
    \o conversation_history
    \o (IF prompt_type = "chain_of_thought"
        THEN <<Message("system", create_chain_of_thought_prompt(input))>>
        ELSE <<>>)
    \o <<Message("user", input)>>

\* build_conversation_context replaying only the last two turns of the history.
build_conversation_context_window(input, prompt_type, hints) ==
    <<Message("system", system_prompt)>>
    \o (IF Contains(ToLower(input), "hint") \/ hints > 0
        THEN [i \in 1..Len(hint_progression_examples) |->
                Message("system", "EXAMPLE HINT PROGRESSION: "
                                  \o hint_progression_examples[i])]
        ELSE <<>>)
    \o (IF prompt_type = "chain_of_thought"
        THEN <<Message("system", create_chain_of_thought_prompt(input))>>
        ELSE <<>>)
    \o (IF Len(conversation_history) <= 2 THEN conversation_history
        ELSE SubSeq(conversation_history, Len(conversation_history) - 1,
                    Len(conversation_history)))
    \o <<Message("user", input)>>

\* build_conversation_context, reading game_state.hints_given as `hints`
build_conversation_context(input, prompt_type, hints) ==
    <<Message("system", system_prompt)>>
    \o (IF Contains(ToLower(input), "hint") \/ hints > 0
        THEN [i \in 1..Len(hint_progression_examples) |->
                Message("system", "EXAMPLE HINT PROGRESSION: "
                                  \o hint_progression_examples[i])]
        ELSE <<>>)
    \o (IF prompt_type = "chain_of_thought"
        THEN <<Message("system", create_chain_of_thought_prompt(input))>>
        ELSE <<>>)
    \o conversation_history
    \o <<Message("user", input)>>

\* The lookup in configs with a key that is never found: the default is returned.
adjust_parameters_wrong_key(difficulty) == engine_config

adjust_parameters_for_difficulty(difficulty) ==
    CASE difficulty = "easy"   -> PromptConfig(800, 50, 80, 10)
      [] difficulty = "medium" -> PromptConfig(1000, 70, 90, 0)
      [] difficulty = "hard"   -> PromptConfig(1200, 80, 95, -10)
      [] difficulty = "expert" -> PromptConfig(1500, 90, 98, -20)
      [] OTHER                 -> engine_config

\* get_ai_response up to and including client.chat.completions.create(...):
\* the payload is built and the request is sent.
IssueRequest(input, prompt_type, stream, custom_config, hints, who) ==
    /\ user_input' = input
    /\ messages' = build_conversation_context(input, prompt_type, hints)
    /\ req_config' = IF custom_config = None THEN engine_config ELSE custom_config[1]
    /\ req_stream' = stream
    /\ caller' = who
    /\ requests' = [requests EXCEPT ![who] = @ + 1]
    /\ pc' = "create"

\* The return of a hint request treated like the return of a guess: the hint
\* reply is scanned for win keywords too.
ReturnAddressScansHints(who) ==
    CASE who = "initial" -> "loop_test"
      [] who = "guess"   -> "check_win"
      [] who = "hint"    -> "check_win"
      [] who = "direct"  -> "idle"

\* Where get_ai_response returns to.
ReturnAddress(who) ==
    CASE who = "initial" -> "loop_test"
      [] who = "guess"   -> "check_win"
      [] who = "hint"    -> "loop_test"
      [] who = "direct"  -> "idle"

\* The update of the history keeping only the latest exchange.
UpdateHistoryKeepingLast(reply) ==
    /\ conversation_history' = <<Message("user", user_input), Message("assistant", reply)>>
    /\ pc' = ReturnAddress(caller)

\* The update of the history storing the payload that was sent, system turns
\* included, instead of the player's turn alone.
UpdateHistoryStoringPayload(reply) ==
    /\ conversation_history' = Append(messages, Message("assistant", reply))
    /\ pc' = ReturnAddress(caller)

\* The update of the history with the two appends in the other order: the
\* reply is stored before the player's turn.
UpdateHistoryReplyFirst(reply) ==
    /\ conversation_history' =
           Append(Append(conversation_history, Message("assistant", reply)),
                  Message("user", user_input))
    /\ pc' = ReturnAddress(caller)

\* get_ai_response, lines 271-275: both turns are appended and the reply returned.
UpdateHistoryAndReturn(reply) ==
    /\ conversation_history' =
           Append(Append(conversation_history, Message("user", user_input)),
                  Message("assistant", reply))
    /\ pc' = ReturnAddress(caller)

\* What the service knows of an exchange once its response is delivered in
\* full: the last message of the payload and the complete text it answered.
Exchange(payload, r) ==
    [input |-> payload[Len(payload)].content, reply |-> FullText(r)]

\* client.chat.completions.create raises: nothing catches it.
CreateFails ==
    /\ pc = "create"
    /\ pc' = "crashed"
    /\ raised' = TRUE
    /\ UNCHANGED <<game_vars, request_vars, response_vars, conversation_history, calls, sessions>>

\* create returns a stream (stream=True): ai_response = "" and the loop starts.
CreateStream ==
    /\ pc = "create"
    /\ req_stream
    /\ \E r \in RepliesTo(caller) :
          /\ response' = r
          /\ chunks' = r
    /\ ai_response' = ""
    /\ printed' = ""
    /\ pc' = "streaming"
    /\ UNCHANGED <<game_vars, request_vars, svc_log, conversation_history, raised, calls, sessions>>

\* One iteration of the loop with `ai_response = content` for `ai_response += content`.
ConsumeChunkOverwrite ==
    /\ pc = "streaming"
    /\ chunks # <<>>
    /\ LET content == Head(chunks).content IN
          IF content # None
          THEN /\ printed' = printed \o content[1]
               /\ ai_response' = content[1]
          ELSE UNCHANGED <<printed, ai_response>>
    /\ chunks' = Tail(chunks)
    /\ UNCHANGED <<pc, game_vars, request_vars, response, svc_log, conversation_history,
                   raised, calls, sessions>>

\* One iteration of `for chunk in response`.
ConsumeChunk ==
    /\ pc = "streaming"
    /\ chunks # <<>>
    /\ LET content == Head(chunks).content IN
          IF content # None
          THEN /\ printed' = printed \o content[1]
               /\ ai_response' = ai_response \o content[1]
          ELSE UNCHANGED <<printed, ai_response>>
    /\ chunks' = Tail(chunks)
    /\ UNCHANGED <<pc, game_vars, request_vars, response, svc_log, conversation_history,
                   raised, calls, sessions>>

\* The failure of the stream with the history updated on the way out (as a
\* `finally` would do): the player turn and the partial reply are stored.
StreamFailsKeepsPartial ==
    /\ pc = "streaming"
    /\ pc' = "crashed"
    /\ raised' = TRUE
    /\ conversation_history' =
           Append(Append(conversation_history, Message("user", user_input)),
                  Message("assistant", ai_response))
    /\ UNCHANGED <<game_vars, request_vars, response_vars, calls, sessions>>

\* The failure of the stream caught inside get_ai_response: the text received
\* so far is kept as the reply and the caller goes on.
StreamFailsSwallowed ==
    /\ pc = "streaming"
    /\ raised' = TRUE
    /\ UpdateHistoryAndReturn(ai_response)
    /\ UNCHANGED <<game_vars, request_vars, response_vars, calls, sessions>>

\* The stream raises while it is iterated over: nothing catches it.
StreamFails ==
    /\ pc = "streaming"
    /\ pc' = "crashed"
    /\ raised' = TRUE
    /\ UNCHANGED <<game_vars, request_vars, response_vars, conversation_history, calls, sessions>>

\* The update of the history and the return not waiting for the end of the stream.
StreamEndEarly ==
    /\ pc = "streaming"
    /\ UpdateHistoryAndReturn(ai_response)
    /\ svc_log' = Append(svc_log, Exchange(messages, response))
    /\ UNCHANGED <<game_vars, request_vars, response, chunks, ai_response, printed,
                   raised, calls, sessions>>

\* The stream is exhausted: the history is updated and the reply returned.
StreamEnd ==
    /\ pc = "streaming"
    /\ chunks = <<>>
    /\ UpdateHistoryAndReturn(ai_response)
    /\ svc_log' = Append(svc_log, Exchange(messages, response))
    /\ UNCHANGED <<game_vars, request_vars, response, chunks, ai_response, printed,
                   raised, calls, sessions>>

\* create returns a whole message (stream=False).
CreateWhole ==
    /\ pc = "create"
    /\ ~req_stream
    /\ \E r \in RepliesTo(caller) :
          /\ response' = r
          /\ ai_response' = FullText(r)
          /\ svc_log' = Append(svc_log, Exchange(messages, r))
          /\ UpdateHistoryAndReturn(FullText(r))
    /\ UNCHANGED <<game_vars, request_vars, chunks, printed, raised, calls, sessions>>

\* ------------------------------------------------------------ select_difficulty
GameModeOf(choice) ==
    CASE choice = "1" -> "easy"
      [] choice = "2" -> "medium"
      [] choice = "3" -> "hard"
      [] choice = "4" -> "expert"

\* main_game_loop, lines 409-433: one pass of select_difficulty's loop and, on
\* a valid choice, the configuration of the engine.
SelectDifficulty ==
    /\ pc = "select_difficulty"
    /\ \E raw \in DifficultyInputs :
          LET choice == Strip(raw) IN
          IF choice \in {"1", "2", "3", "4"}
          THEN /\ game_mode' = GameModeOf(choice)
               /\ engine_config' = adjust_parameters_for_difficulty(GameModeOf(choice))
               /\ config' = adjust_parameters_for_difficulty(GameModeOf(choice))
               /\ pc' = "initial_clue"
          ELSE UNCHANGED <<pc, game_mode, engine_config, config>>
    /\ UNCHANGED <<attempts, game_over, hints_given, user_guess, reprompts,
                   end_message, request_vars, response_vars, conversation_history, raised, calls, sessions>>

\* ---------------------------------------------------------------- main_game_loop
initial_prompt ==
    "Let's play a word guessing game! Give me a word to guess with an initial clue."

\* lines 436-441
RequestInitialClue ==
    /\ pc = "initial_clue"
    /\ IssueRequest(initial_prompt, "role_based", TRUE, Some(config), hints_given, "initial")
    /\ UNCHANGED <<game_vars, response_vars, conversation_history, raised, calls, sessions>>

\* The loop condition without the bound on attempts.
LoopConditionUnbounded == ~game_over

\* The loop condition with <= for <.
LoopConditionOffByOne == attempts <= max_attempts /\ ~game_over

\* The loop condition stopping one attempt early.
LoopConditionEarly == attempts < max_attempts - 1 /\ ~game_over

\* lines 444-445: the condition of the while loop.
LoopCondition == attempts < max_attempts /\ ~game_over

\* lines 444-448: the loop condition holds, the attempt is counted and shown.
LoopEnter ==
    /\ pc = "loop_test"
    /\ LoopCondition
    /\ attempts' = attempts + 1
    /\ pc' = "input_guess"
    /\ UNCHANGED <<game_over, hints_given, game_mode, engine_config, config, user_guess,
                   reprompts, end_message, request_vars, response_vars,
                   conversation_history, raised, calls, sessions>>

\* lines 444-445: the loop condition fails.
LoopExit ==
    /\ pc = "loop_test"
    /\ ~LoopCondition
    /\ pc' = "after_loop"
    /\ UNCHANGED <<game_vars, request_vars, response_vars, conversation_history, raised, calls, sessions>>

\* The empty guess without `attempts -= 1`.
EmptyGuessCounted ==
    /\ pc = "input_guess"
    /\ reprompts < MaxEmpty
    /\ \E raw \in GuessInputs :
          /\ Strip(raw) = ""
          /\ user_guess' = Strip(raw)
    /\ reprompts' = reprompts + 1
    /\ pc' = "loop_test"
    /\ UNCHANGED <<attempts, game_over, hints_given, game_mode, engine_config, config,
                   end_message, request_vars, response_vars, conversation_history,
                   raised, calls, sessions>>

\* lines 451-456: the guess is empty after strip().
EmptyGuess ==
    /\ pc = "input_guess"
    /\ reprompts < MaxEmpty
    /\ \E raw \in GuessInputs :
          /\ Strip(raw) = ""
          /\ user_guess' = Strip(raw)
    /\ attempts' = attempts - 1
    /\ reprompts' = reprompts + 1
    /\ pc' = "loop_test"
    /\ UNCHANGED <<game_over, hints_given, game_mode, engine_config, config, end_message,
                   request_vars, response_vars, conversation_history, raised, calls, sessions>>

guess_analysis(guess) ==
    "Player guessed: '" \o guess \o "'. Analyze this guess and provide feedback."

\* lines 451-464: a guess is submitted for analysis.
SubmitGuess ==
    /\ pc = "input_guess"
    /\ \E raw \in GuessInputs :
          /\ Strip(raw) # ""
          /\ user_guess' = Strip(raw)
          /\ IssueRequest(guess_analysis(Strip(raw)), "chain_of_thought", TRUE,
                          Some(config), hints_given, "guess")
    /\ UNCHANGED <<attempts, game_over, hints_given, game_mode, engine_config, config,
                   reprompts, end_message, response_vars, conversation_history, raised, calls, sessions>>

win_words == <<"congratulations", "correct", "you got it", "right", "exactly">>

\* The scan without .lower().
ContainsWinWordCaseSensitive(reply) ==
    \E i \in 1..Len(win_words) : Contains(reply, win_words[i])

\* line 467
ContainsWinWord(reply) ==
    \E i \in 1..Len(win_words) : Contains(ToLower(reply), win_words[i])

\* The hint offer without the test for remaining attempts.
HintOfferedAfterLast ==
    /\ ~game_over
    /\ hints_given < max_hints

\* The hint offer guarded by game_over alone.
HintOfferedUnbounded == ~game_over

\* lines 477-479
HintOffered ==
    /\ attempts < max_attempts
    /\ ~game_over
    /\ hints_given < max_hints

\* lines 466-479: the reply to a guess is scanned, then the hint offer decided.
CheckWin ==
    /\ pc = "check_win"
    /\ IF ContainsWinWord(ai_response)
       THEN /\ game_over' = TRUE
            /\ end_message' = "complete"
            /\ pc' = "after_loop"
       ELSE /\ UNCHANGED <<game_over, end_message>>
            /\ pc' = IF HintOffered THEN "hint_prompt" ELSE "loop_test"
    /\ UNCHANGED <<attempts, hints_given, game_mode, engine_config, config, user_guess,
                   reprompts, request_vars, response_vars, conversation_history, raised, calls, sessions>>

IsYes(raw) == ToLower(Strip(raw)) \in {"y", "yes"}

hint_request(att, hints, last_guess) ==
    hint_template(att, hints, last_guess) \o "\n\nProvide a helpful hint for the word."

\* The accepted hint counted as an attempt as well.
AcceptHintCountsAttempt ==
    /\ pc = "hint_prompt"
    /\ \E raw \in HintInputs : IsYes(raw)
    /\ hints_given' = hints_given + 1
    /\ attempts' = attempts + 1
    /\ IssueRequest(hint_request(attempts, hints_given + 1, user_guess), "few_shot", TRUE,
                    Some(config), hints_given + 1, "hint")
    /\ UNCHANGED <<game_over, game_mode, engine_config, config, user_guess,
                   reprompts, end_message, response_vars, conversation_history, raised, calls, sessions>>

\* The accepted hint without `hints_given += 1`.
AcceptHintUncounted ==
    /\ pc = "hint_prompt"
    /\ \E raw \in HintInputs : IsYes(raw)
    /\ IssueRequest(hint_request(attempts, hints_given, user_guess), "few_shot", TRUE,
                    Some(config), hints_given, "hint")
    /\ UNCHANGED <<attempts, game_over, hints_given, game_mode, engine_config, config,
                   user_guess, reprompts, end_message, response_vars,
                   conversation_history, raised, calls, sessions>>

\* lines 481-498: the player accepts the hint.
AcceptHint ==
    /\ pc = "hint_prompt"
    /\ \E raw \in HintInputs : IsYes(raw)
    /\ hints_given' = hints_given + 1
    /\ IssueRequest(hint_request(attempts, hints_given + 1, user_guess), "few_shot", TRUE,
                    Some(config), hints_given + 1, "hint")
    /\ UNCHANGED <<attempts, game_over, game_mode, engine_config, config, user_guess,
                   reprompts, end_message, response_vars, conversation_history, raised, calls, sessions>>

\* lines 481-482: the player declines.
DeclineHint ==
    /\ pc = "hint_prompt"
    /\ \E raw \in HintInputs : ~IsYes(raw)
    /\ pc' = "loop_test"
    /\ UNCHANGED <<game_vars, request_vars, response_vars, conversation_history, raised, calls, sessions>>

\* lines 500-525: the closing banners.
AfterLoop ==
    /\ pc = "after_loop"
    /\ end_message' = IF attempts >= max_attempts /\ ~game_over
                      THEN "game_over" ELSE end_message
    /\ pc' = "done"
    /\ UNCHANGED <<attempts, game_over, hints_given, game_mode, engine_config, config,
                   user_guess, reprompts, request_vars, response_vars,
                   conversation_history, raised, calls, sessions>>

\* ------------------------------------------------------------- specifications
\* The module has been imported: prompt_engineer = PromptEngineer().
EngineInit ==
    /\ attempts = 0
    /\ game_over = FALSE
    /\ hints_given = 0
    /\ game_mode = "medium"
    /\ engine_config = DefaultConfig
    /\ conversation_history = <<>>
    /\ config = DefaultConfig
    /\ user_guess = ""
    /\ caller = "none"
    /\ user_input = ""
    /\ messages = <<>>
    /\ req_config = DefaultConfig
    /\ req_stream = TRUE
    /\ response = <<>>
    /\ chunks = <<>>
    /\ ai_response = ""
    /\ printed = ""
    /\ requests = [who \in {"initial", "guess", "hint", "direct"} |-> 0]
    /\ svc_log = <<>>
    /\ reprompts = 0
    /\ end_message = "none"
    /\ raised = FALSE
    /\ calls = 0

\* python conversation.py: main_game_loop() runs once.
Init ==
    /\ EngineInit
    /\ pc = "select_difficulty"
    /\ sessions = 1

Next ==
    \/ SelectDifficulty
    \/ RequestInitialClue
    \/ CreateFails
    \/ CreateStream
    \/ ConsumeChunk
    \/ StreamFails
    \/ StreamEnd
    \/ LoopEnter
    \/ LoopExit
    \/ EmptyGuess
    \/ SubmitGuess
    \/ CheckWin
    \/ AcceptHint
    \/ DeclineHint
    \/ AfterLoop

Spec == Init /\ [][Next]_vars

\* ------------------------------------------------- a session that is answered
\* main_game_loop with a service whose every request returns a complete reply.
NextLive ==
    \/ SelectDifficulty
    \/ RequestInitialClue
    \/ CreateStream
    \/ ConsumeChunk
    \/ StreamEnd
    \/ LoopEnter
    \/ LoopExit
    \/ EmptyGuess
    \/ SubmitGuess
    \/ CheckWin
    \/ AcceptHint
    \/ DeclineHint
    \/ AfterLoop

\* The program is sequential and blocks on input() and on the service only:
\* it takes its next step whenever it has one, provided the input arrives.  The
\* player eventually types a valid difficulty (a SelectDifficulty step that
\* changes the state) and, prompted again and again, eventually a guess.
LiveFairness ==
    /\ WF_vars(NextLive)
    /\ SF_vars(SubmitGuess)

SpecLive == Init /\ [][NextLive]_vars /\ LiveFairness

\* --------------------------------------------- main_game_loop, called once more
\* A caller that imported the module calls main_game_loop() again after it has
\* returned: the locals are fresh, the module-level prompt_engineer (line 336)
\* is the one the earlier call used.
MainGameLoopAgain ==
    /\ pc = "done"
    /\ sessions < MaxSessions
    /\ sessions' = sessions + 1
    /\ pc' = "select_difficulty"
    /\ user_guess' = ""
    /\ reprompts' = 0
    /\ end_message' = "none"
    /\ UNCHANGED <<attempts, game_over, hints_given, game_mode, engine_config, config,
                   request_vars, response_vars, conversation_history, raised, calls>>

NextRerun ==
    \/ Next
    \/ MainGameLoopAgain

SpecRerun == Init /\ [][NextRerun]_vars

\* ------------------------------------------------- get_ai_response, called directly
\* What demonstrate_prompt_techniques passes as user_input (lines 385, 393, 401).
DirectInputs ==
    { "I'm thinking of a word that starts with 'S' and is related to science",
      "Give me a clue for a word related to space",
      "What makes a good word guessing game?" }

\* A caller other than main_game_loop (demonstrate_prompt_techniques, the legacy
\* get_ai_response) calls prompt_engineer.get_ai_response without custom_config.
DirectCall ==
    /\ pc = "idle"
    /\ calls < MaxCalls
    /\ calls' = calls + 1
    /\ \E input \in DirectInputs, prompt_type \in PromptTypes, stream \in BOOLEAN :
          IssueRequest(input, prompt_type, stream, None, hints_given, "direct")
    /\ UNCHANGED <<game_vars, response_vars, conversation_history, raised, sessions>>

\* The module has been imported and its engine is used by direct calls.
InitCall ==
    /\ EngineInit
    /\ pc = "idle"
    /\ sessions = 0

NextCall ==
    \/ DirectCall
    \/ CreateFails
    \/ CreateStream
    \/ CreateWhole
    \/ ConsumeChunk
    \/ StreamFails
    \/ StreamEnd

SpecCall == InitCall /\ [][NextCall]_vars

\* ---------------------------------------------------------------- properties
IsGuessAnalysis(text) ==
    Len(text) >= 17 /\ SubSeq(text, 1, 17) = "Player guessed: '"

\* A reference reading of "the lower-cased reply contains a keyword": some
\* substring of the reply, lower-cased, is one of the five keywords.
HasKeyword(text) ==
    \E w \in {"congratulations", "correct", "you got it", "right", "exactly"} :
        \E i \in 1..Len(text) :
            /\ i + Len(w) - 1 <= Len(text)
            /\ ToLower(SubSeq(text, i, i + Len(w) - 1)) = w

\* The reply, lower-cased, has none of the five keywords in it.
NoKeyword(text) ==
    LET lowered == ToLower(text) IN
    \A w \in {"congratulations", "correct", "you got it", "right", "exactly"} :
        ~Contains(lowered, w)

\* The guesses whose reply was received in full.
GuessesAnswered ==
    Cardinality({i \in 1..Len(svc_log) : IsGuessAnalysis(svc_log[i].input)})

\* The guesses whose reply was received in full and named no win keyword.
GuessesLost ==
    Cardinality({i \in 1..Len(svc_log) :
                    IsGuessAnalysis(svc_log[i].input) /\ NoKeyword(svc_log[i].reply)})

\* C1: attempt exhaustion.  With max_attempts = 4, once four non-empty guesses
\* have each received a reply without a win keyword and the reply has been
\* scanned, the loop is over (no guess prompt, no hint offer) with game_over
\* false and attempts = 4, the loss banner is the one printed, and a fifth
\* guess request is never issued.
C1_AttemptExhaustion ==
    /\ max_attempts = 4
    /\ requests["guess"] <= 4
    /\ (requests["guess"] = 4 /\ pc # "check_win"
           /\ GuessesAnswered = 4 /\ GuessesLost = 4) =>
          /\ pc \in {"loop_test", "after_loop", "done"}
          /\ ~LoopCondition
          /\ ~game_over
          /\ attempts = 4
          /\ pc = "done" => end_message = "game_over"

C1_Witness ==
    /\ pc = "done"
    /\ GuessesLost = 4
    /\ requests["hint"] = 3
    /\ reprompts > 0
    /\ attempts = 4 /\ ~game_over

\* C2: win detection.  The scan of a guess reply sets game_over and leaves the
\* loop exactly when the lower-cased reply contains one of the five keywords;
\* "Correct! Well done." wins, "Not quite, try again" does not.
C2_WinDetection ==
    [][pc = "check_win" =>
          ( /\ game_over' <=> HasKeyword(ai_response)
            /\ (pc' = "after_loop") <=> HasKeyword(ai_response)
            /\ ai_response = "Correct! Well done." => game_over'
            /\ ai_response = "Not quite, try again" => ~game_over' )]_vars

C2_Witness ==
    /\ pc = "after_loop"
    /\ game_over
    /\ ai_response = "A bRight idea"

\* C3: an empty or whitespace-only guess is a no-op re-prompt.  It takes back
\* the attempt counted for the prompt and changes neither hints_given,
\* game_over, the history nor the requests issued; attempts always equals the
\* number of non-empty guesses (plus one while the player is being prompted),
\* so k empty submissions and one guess leave attempts = 1.
C3_EmptyGuessNoOp ==
    /\ [](attempts = requests["guess"] + (IF pc = "input_guess" THEN 1 ELSE 0))
    /\ [][(pc = "input_guess" /\ pc' = "loop_test") =>
             ( /\ attempts' = attempts - 1
               /\ UNCHANGED <<hints_given, game_over, conversation_history, requests,
                              messages, svc_log>> )]_vars

C3_Witness ==
    /\ reprompts = 3
    /\ requests["guess"] = 1
    /\ attempts = 1
    /\ pc = "check_win"

\* C4: hint budget.  With max_hints = 3, once three hints have been accepted the
\* hint offer is not presented again, and a fourth hint request is never issued.
C4_HintBudget ==
    /\ max_hints = 3
    /\ requests["hint"] <= 3
    /\ hints_given = requests["hint"]
    /\ hints_given >= 3 => pc # "hint_prompt"

C4_Witness ==
    /\ hints_given = 3
    /\ requests["hint"] = 3
    /\ pc = "input_guess"
    /\ svc_log # <<>> /\ ~IsGuessAnalysis(svc_log[Len(svc_log)].input)

PersonaTurn == Message("system", system_prompt)

IsDialogue(m) == m.role \in {"user", "assistant"}

\* The length of the run of system turns a payload starts with.
SystemPrefix(payload) ==
    IF \A i \in 1..Len(payload) : payload[i].role = "system" THEN Len(payload)
    ELSE (CHOOSE i \in 1..Len(payload) :
              /\ payload[i].role # "system"
              /\ \A j \in 1..(i - 1) : payload[j].role = "system") - 1

\* C5 as stated: every payload is the persona turn followed by player and
\* assistant turns only.
C5_Original ==
    pc = "create" =>
        /\ messages[1] = PersonaTurn
        /\ \A i \in 2..Len(messages) : IsDialogue(messages[i])

\* C5 amended: every payload begins with the persona SYSTEM turn; the SYSTEM
\* turns form the head of the payload, the persona being followed by one
\* hint-progression example when the input mentions "hint" or hints_given > 0
\* and by one chain-of-thought turn for a guess analysis; every element after
\* them is a PLAYER or ASSISTANT turn.
C5_SystemTurnsFirst ==
    pc = "create" =>
        /\ messages[1] = PersonaTurn
        /\ \A i \in 1..Len(messages) :
              i > SystemPrefix(messages) => IsDialogue(messages[i])
        /\ SystemPrefix(messages) =
              1 + (IF Contains(ToLower(user_input), "hint") \/ hints_given > 0
                   THEN 1 ELSE 0)
                + (IF caller = "guess" THEN 1 ELSE 0)

C5_Witness ==
    /\ pc = "create"
    /\ caller = "guess"
    /\ hints_given = 2
    /\ SystemPrefix(messages) = 3
    /\ Len(messages) > 8

\* C6 as stated: the stored conversation and every payload built from it have a
\* SYSTEM turn as their first element.
C6_Original ==
    /\ conversation_history # <<>> => conversation_history[1].role = "system"
    /\ messages # <<>> => messages[1].role = "system"

\* C6 amended: every payload built from the store has a SYSTEM turn as its
\* first element; the stored conversation_history is empty after initialization
\* and, from the first append on, its first element is the PLAYER turn asking
\* for the initial clue.
C6_SystemFirstInPayload ==
    /\ messages # <<>> => messages[1].role = "system"
    /\ pc \in {"select_difficulty", "initial_clue"} => conversation_history = <<>>
    /\ conversation_history # <<>> =>
          conversation_history[1] = Message("user", initial_prompt)

C6_Witness ==
    /\ pc = "create"
    /\ caller = "hint"
    /\ Len(conversation_history) = 4
    /\ messages[1].role = "system"

RECURSIVE TurnsOf(_)
\* The turns the completed exchanges amount to, in the order they took place.
TurnsOf(log) ==
    IF log = <<>> THEN <<>>
    ELSE <<Message("user", Head(log).input), Message("assistant", Head(log).reply)>>
         \o TurnsOf(Tail(log))

\* The text main_game_loop hands to get_ai_response for the request in flight.
CurrentInput ==
    CASE caller = "initial" -> initial_prompt
      [] caller = "guess"   -> guess_analysis(user_guess)
      [] caller = "hint"    -> hint_request(attempts, hints_given, user_guess)

\* C7: full-history replay.  The player and assistant turns of the payload of
\* a request are the turns of all completed exchanges of the session, in the
\* order they took place, followed by the current player input.
C7_FullHistoryReplay ==
    pc \in {"create", "streaming"} =>
        SelectSeq(messages, IsDialogue)
            = TurnsOf(svc_log) \o <<Message("user", CurrentInput)>>

C7_Witness ==
    /\ pc = "create"
    /\ Len(svc_log) = 7
    /\ requests["hint"] = 3
    /\ Len(SelectSeq(messages, IsDialogue)) = 15

\* C8: streaming and non-streaming agree.  Whatever the mode, the text
\* get_ai_response returns and appends to the history is the concatenation of
\* the fragments of the response, which is the text of the whole message;
\* "Hel", "lo, ", "world!" gives "Hello, world!".
C8_StreamEquivalence ==
    (pc = "idle" /\ calls > 0) =>
        /\ ai_response = FullText(response)
        /\ conversation_history[Len(conversation_history)]
              = Message("assistant", FullText(response))
        /\ response = <<Chunk(Some("Hel")), Chunk(Some("lo, ")), Chunk(Some("world!"))>>
              => ai_response = "Hello, world!"

C8_Witness ==
    /\ pc = "idle"
    /\ req_stream
    /\ Len(response) = 3
    /\ ai_response = "Hello, world!"
    /\ printed = "Hello, world!"

\* C9: the end of the loop is terminal.  When the loop has ended either
\* game_over is true or attempts = max_attempts with game_over false, the
\* closing banner tells which, and no completion request follows.
C9_TerminalAfterLoop ==
    /\ [](pc \in {"after_loop", "done"} => (game_over \/ attempts = max_attempts))
    /\ [](pc = "done" => end_message = (IF game_over THEN "complete" ELSE "game_over"))
    /\ [][(pc \in {"after_loop", "done"}) =>
             ( /\ pc' = "done"
               /\ UNCHANGED <<requests, messages, conversation_history, attempts,
                              game_over, hints_given>> )]_vars

C9_Witness ==
    /\ pc = "done"
    /\ game_over
    /\ attempts = max_attempts
    /\ end_message = "complete"

\* C10: a failed completion request is fatal.  An error raised by a request, at
\* its creation or while its stream is read, ends the session at once: no
\* request is issued again or afterwards, no input is read, nothing moves.
C10_FailureIsFatal ==
    /\ [](raised => pc = "crashed")
    /\ [][raised' => (~raised /\ pc \in {"create", "streaming"} /\ pc' = "crashed"
                      /\ UNCHANGED <<requests, messages, conversation_history,
                                     attempts, hints_given, game_over>>)]_vars

C10_Witness ==
    /\ raised
    /\ pc = "crashed"
    /\ caller = "hint"
    /\ chunks # <<>> /\ chunks # response

\* s is an initial segment of t.
IsPrefix(s, t) == Len(s) <= Len(t) /\ SubSeq(t, 1, Len(s)) = s

\* C11: accepting a hint does not consume an attempt.  The accepted offer adds
\* exactly 1 to hints_given and issues exactly one request; until its reply is
\* stored attempts and game_over stay as they were; the reply is appended to
\* the history and the loop goes on to the next guess prompt.
C11_HintKeepsAttempts ==
    /\ [][(pc = "hint_prompt" /\ pc' # "loop_test") =>
             ( /\ pc' = "create" /\ caller' = "hint"
               /\ hints_given' = hints_given + 1
               /\ requests' = [requests EXCEPT !["hint"] = @ + 1]
               /\ UNCHANGED <<attempts, game_over, conversation_history>> )]_vars
    /\ [][(caller = "hint" /\ pc \in {"create", "streaming"}) =>
             ( /\ UNCHANGED <<attempts, game_over, hints_given, requests>>
               /\ pc' = "loop_test" =>
                     conversation_history' =
                        conversation_history
                        \o <<Message("user", user_input),
                             Message("assistant", FullText(response))>> )]_vars
    /\ [][(caller = "hint" /\ pc = "loop_test") =>
             (pc' = "input_guess" /\ attempts' = attempts + 1)]_vars

C11_Witness ==
    /\ pc = "input_guess"
    /\ caller = "hint"
    /\ hints_given = 1
    /\ attempts = 2
    /\ Len(conversation_history) = 6

\* C12: one sampling configuration per session.  The configuration is the one
\* of the chosen difficulty, it is fixed before the first request, and every
\* request of the session (initial clue, guess, hint) carries it.
C12_OneSamplingConfig ==
    /\ [](pc # "select_difficulty" =>
            /\ config = engine_config
            /\ game_mode = "medium" =>
                  config = [max_tokens |-> 1000, temperature |-> 70, top_p |-> 90,
                            frequency_penalty |-> 0, presence_penalty |-> 0,
                            stop |-> "None"]
            /\ game_mode = "expert" =>
                  config = [max_tokens |-> 1500, temperature |-> 90, top_p |-> 98,
                            frequency_penalty |-> -20, presence_penalty |-> 0,
                            stop |-> "None"]
            /\ game_mode = "easy" =>
                  config = [max_tokens |-> 800, temperature |-> 50, top_p |-> 80,
                            frequency_penalty |-> 10, presence_penalty |-> 0,
                            stop |-> "None"]
            /\ game_mode = "hard" =>
                  config = [max_tokens |-> 1200, temperature |-> 80, top_p |-> 95,
                            frequency_penalty |-> -10, presence_penalty |-> 0,
                            stop |-> "None"])
    /\ [](requests["initial"] > 0 => (req_config = config /\ req_stream))
    /\ [][(pc # "select_difficulty") =>
             UNCHANGED <<config, engine_config, game_mode>>]_vars

C12_Witness ==
    /\ pc = "create"
    /\ caller = "hint"
    /\ requests["guess"] = 3
    /\ game_mode = "expert"
    /\ req_config.max_tokens = 1500

\* The chunks of the response in flight that the loop has already consumed.
Consumed == SubSeq(response, 1, Len(response) - Len(chunks))

\* C13: the stream is consumed in order and to its end.  While a response is
\* streamed the chunks still to come are a tail of the response, what has been
\* printed and what has been accumulated are both the concatenation of the
\* chunks consumed so far, and the history does not hold the exchange; the
\* history is updated and the reply scanned only when no chunk is left, with
\* the full concatenation.
C13_StreamInOrder ==
    /\ [](pc = "streaming" =>
            /\ Len(chunks) <= Len(response)
            /\ chunks = SubSeq(response, Len(response) - Len(chunks) + 1, Len(response))
            /\ ai_response = FullText(Consumed)
            /\ printed = ai_response
            /\ Len(conversation_history) = 2 * Len(svc_log))
    /\ [](pc = "check_win" =>
            /\ chunks = <<>>
            /\ ai_response = FullText(response)
            /\ conversation_history[Len(conversation_history)]
                  = Message("assistant", FullText(response)))
    /\ [][(pc = "streaming" /\ conversation_history' # conversation_history) =>
             ( /\ chunks = <<>>
               /\ conversation_history' =
                     conversation_history
                     \o <<Message("user", user_input),
                          Message("assistant", FullText(response))>> )]_vars
    /\ [][(pc = "streaming" /\ pc' = "streaming") =>
             ( /\ chunks' = Tail(chunks)
               /\ printed' = FullText(SubSeq(response, 1, Len(response) - Len(chunks) + 1)) )]_vars

C13_Witness ==
    /\ pc = "streaming"
    /\ caller = "guess"
    /\ Len(response) = 3
    /\ Len(chunks) = 1
    /\ printed = "Yes, you g"

\* C14: the conversation history is append-only.  Every step leaves the
\* history as it was or extends it at its end.
C14_AppendOnly ==
    [][IsPrefix(conversation_history, conversation_history')]_vars

C14_Witness ==
    /\ Len(conversation_history) = 16
    /\ conversation_history[1] = Message("user", initial_prompt)
    /\ conversation_history[16].role = "assistant"

\* C17: a hint is offered only while the game can go on.  The hint prompt is
\* shown only with game_over false, attempts < max_attempts and
\* hints_given < max_hints; a hint is never requested after a winning reply or
\* after the reply to the last guess, and when a hint has been given the loop
\* condition still holds, so the next step is a guess prompt.
C17_HintOnlyWhileOpen ==
    /\ pc = "hint_prompt" =>
          (~game_over /\ attempts < max_attempts /\ hints_given < max_hints)
    /\ caller = "hint" =>
          /\ ~game_over
          /\ attempts < max_attempts \/ pc = "input_guess"
          /\ requests["guess"] < max_attempts
    /\ (caller = "hint" /\ pc = "loop_test") => (attempts < max_attempts /\ ~game_over)
    /\ (caller = "hint" /\ pc \in {"after_loop", "done"}) => FALSE

C17_Witness ==
    /\ pc = "loop_test"
    /\ caller = "hint"
    /\ attempts = 3
    /\ hints_given = 1

\* C18: a failed request leaves the history alone.  When a request raises, at
\* its creation or in the middle of its stream, the history is what it was when
\* the request was issued (the completed exchanges and nothing else), while the
\* attempt or the hint of that request stays counted.
C18_FailureKeepsHistory ==
    /\ [][raised' => UNCHANGED conversation_history]_vars
    /\ [](raised =>
            /\ conversation_history = TurnsOf(svc_log)
            /\ Len(conversation_history)
                  = 2 * (requests["initial"] + requests["guess"] + requests["hint"] - 1)
            /\ attempts = requests["guess"]
            /\ hints_given = requests["hint"]
            /\ caller = "guess" => attempts = GuessesAnswered + 1)

C18_Witness ==
    /\ raised
    /\ caller = "guess"
    /\ attempts = 2
    /\ ai_response = "Not quite, "
    /\ Len(conversation_history) = 4

\* C19: only the reply to a guess is scanned.  game_over turns true only in the
\* step that scans the reply to a guess; a win keyword in the initial clue or
\* in a hint leaves it false.
C19_OnlyGuessesWin ==
    /\ [][(game_over' /\ ~game_over) => (pc = "check_win" /\ caller = "guess")]_vars
    /\ []((pc = "loop_test" /\ caller \in {"initial", "hint"}) => ~game_over)
    /\ [](pc = "check_win" => caller = "guess")

C19_Witness ==
    /\ pc = "input_guess"
    /\ caller = "hint"
    /\ ai_response = "You are right on track"
    /\ conversation_history[2].content = "You are right on track"
    /\ ~game_over

\* C20: the counters stay within their bounds.  In every state
\* 0 <= attempts <= max_attempts and 0 <= hints_given <= max_hints, no more
\* guess requests have been issued than attempts counted and no more hint
\* requests than hints counted.
C20_CounterBounds ==
    /\ 0 <= attempts /\ attempts <= max_attempts
    /\ 0 <= hints_given /\ hints_given <= max_hints
    /\ requests["guess"] <= attempts
    /\ requests["hint"] <= hints_given

C20_Witness ==
    /\ attempts = max_attempts
    /\ hints_given = max_hints
    /\ requests["guess"] = 3
    /\ pc = "input_guess"

\* C15: a later session of the same process starts fresh.  When main_game_loop
\* is entered again the history is empty, attempts = 0, hints_given = 0 and
\* game_over is false.
C15_FreshSession ==
    (sessions > 1 /\ pc = "select_difficulty") =>
        /\ conversation_history = <<>>
        /\ attempts = 0
        /\ hints_given = 0
        /\ ~game_over

\* C16: the session terminates.  When every request returns and the player
\* eventually gives a valid difficulty and a non-empty guess, the session
\* reaches its end, won or with the attempts exhausted, after at most
\* max_attempts guess requests and max_hints hint requests; an empty guess
\* leaves the loop condition true, so the prompt comes again as long as the
\* input stays empty.
C16_SessionTerminates ==
    /\ <>(pc = "done")
    /\ [](pc = "done" =>
            /\ game_over \/ attempts = max_attempts
            /\ requests["guess"] <= max_attempts
            /\ requests["hint"] <= max_hints)
    /\ [][(pc = "input_guess" /\ pc' = "loop_test") =>
             (attempts' < max_attempts /\ ~game_over')]_vars

C16_Witness ==
    /\ pc = "done"
    /\ requests["guess"] = max_attempts
    /\ requests["hint"] = max_hints
    /\ reprompts = 3
    /\ ~raised

\* C21: the shape of the history.  Every completed request appends exactly two
\* turns, the player's turn then the assistant's reply, and nothing else
\* changes the history; so the history has twice as many turns as there are
\* completed requests, its roles alternate user, assistant starting with user,
\* and it holds no system turn.
C21_HistoryShape ==
    /\ [](/\ Len(conversation_history) = 2 * Len(svc_log)
          /\ \A i \in 1..Len(conversation_history) :
                conversation_history[i].role
                    = (IF i % 2 = 1 THEN "user" ELSE "assistant"))
    /\ [][(conversation_history' # conversation_history) =>
             ( /\ Len(svc_log') = Len(svc_log) + 1
               /\ conversation_history' =
                      conversation_history
                          \o << Message("user", user_input),
                                Message("assistant", ai_response') >> )]_vars
    /\ [][(Len(svc_log') # Len(svc_log)) =>
             Len(conversation_history') = Len(conversation_history) + 2]_vars

C21_Witness ==
    /\ pc = "hint_prompt"
    /\ Len(svc_log) = 3
    /\ Len(conversation_history) = 6
    /\ conversation_history[5] = Message("user", guess_analysis("cat"))
    /\ conversation_history[6].role = "assistant"
    /\ messages[1].role = "system"

====
